---- MODULE Spec2Model ----
(***************************************************************************)
(* Model of sc2/main.py: the match orchestrator (_host_game / _join_game), *)
(* _play_game, the AI episode loop (_play_game_ai) and the human loop      *)
(* (_play_game_human).  Every engine round-trip (an await on the Client or *)
(* the Server) is one action; the code between two awaits belongs to the   *)
(* action of the await that precedes it.  Spec follows one _host_game or   *)
(* _join_game call; SpecLive is its non-realtime AI loop without a bound   *)
(* on the iterations; SpecRunGame is run_game with its coroutines;         *)
(* SpecIter is host_game_iter / _host_game_aiter.                          *)
(***************************************************************************)
EXTENDS Integers, Sequences, FiniteSets, TLC

(* ------------------------------ bounds -------------------------------- *)
\* iterations modelled per episode (the loops themselves are unbounded)
MaxIter == 3
\* largest num_runs argument modelled
MaxRuns == 3
\* longest players list given to run_game
MaxPlayers == 2
\* most episodes asked of the iterator form
MaxEpisodes == 3

(* --------------------------- value domains ---------------------------- *)
\* Python None for the optional numeric arguments (game_time_limit=None, step_time_limit=None)
NoLimit == -1
\* data.Result
Results == {"Victory", "Defeat", "Tie", "Undecided"}
\* participant ids the engine hands out in join_game
PlayerIds == {1, 2}
\* client._game_result: None is <<>>, otherwise the mapping player_id -> Result
GameResults == {<<"Victory", "Defeat">>, <<"Defeat", "Victory">>, <<"Tie", "Tie">>,
                <<"Undecided", "Undecided">>}
\* <<game_time_limit, game_steps>> arguments modelled: no budget, a budget of 0, of 1
\* and of 60 seconds; the default of 8 engine steps per client.step(), and a coarse 512
\* with which MaxIter steps outlast 60 seconds
TimeConfigs == {<<NoLimit, 8>>, <<0, 8>>, <<1, 8>>, <<60, 512>>}
\* step_time_limit arguments modelled: None and one second
StepTimeLimits == {NoLimit, 1}

\* what _host_game / _join_game hand back (or have not yet handed back)
Pending == [kind |-> "pending", n |-> 0, r |-> "-"]
RetNone == [kind |-> "None", n |-> 0, r |-> "-"]
RetWins(n) == [kind |-> "num_wins", n |-> n, r |-> "-"]
RetResult(r) == [kind |-> "Result", n |-> 0, r |-> r]

VARIABLES
  \* arguments of _host_game / _join_game
  role, kind, realtime, step_time_limit, game_time_limit, reset, num_runs,
  game_step, save_replay_as,
  \* control
  pc, exc, result,
  \* the Client and the engine behind it
  player_id, game_result, in_game, game_loop, conn_closed, issued, create_game_calls,
  \* the AI object
  units, known_enemy_units, on_reset_calls, on_end_calls, last_hook, hook_outcome,
  \* the iteration arguments on_step received since the last on_reset
  on_step_calls,
  \* the observation / step requests of the episode since the last on_step call
  since_on_step,
  \* server.restart_game() requests issued
  restart_game_calls,
  \* locals of _play_game_ai
  iteration, run, num_wins, res

VARIABLES
  \* run_game: its argument, its position, the Portconfig() it built, its result
  players, rg_pc, portconfig, rg_result,
  \* SC2Process() instances started
  servers,
  \* the _host_game / _join_game tasks of run_game: position, portconfig argument,
  \* server, index of the participant played, answered requests of the match, result
  task_pc, task_portconfig, task_server, task_player, task_steps, task_result

VARIABLES
  \* host_game_iter / _host_game_aiter: position, new_playerconfig, players, run
  it_pc, new_playerconfig, aiter_players, aiter_run, aiter_result,
  \* the players given to the last create_game and to the last _play_game
  created_with, played_with,
  \* what the consumer sent so far, and the results it was given
  sent, yielded

\* the state of run_game and of its tasks
runGameVars == <<players, rg_pc, portconfig, rg_result, servers, task_pc,
                 task_portconfig, task_server, task_player, task_steps, task_result>>

\* the state of the iterator form
iterVars == <<it_pc, new_playerconfig, aiter_players, aiter_run, aiter_result,
              created_with, played_with, sent, yielded>>

\* what the steps of one _host_game / _join_game call leave alone
others == <<runGameVars, iterVars>>

\* the call logs that most actions leave alone
logs == <<on_step_calls, since_on_step, restart_game_calls>>

config == <<role, kind, realtime, step_time_limit, game_time_limit, reset, num_runs,
            game_step, save_replay_as>>
\* the state of one _host_game / _join_game call
gameVars == <<role, kind, realtime, step_time_limit, game_time_limit, reset, num_runs,
              game_step, save_replay_as, pc, exc, result, player_id, game_result,
              in_game, game_loop, conn_closed, issued, create_game_calls, units,
              known_enemy_units, on_reset_calls, on_end_calls, last_hook, hook_outcome,
              iteration, run, num_wins, res, on_step_calls, since_on_step,
              restart_game_calls>>

vars == <<gameVars, runGameVars, iterVars>>

(* --------------------------- pure helpers ----------------------------- *)
\* Python truthiness of an optional number: None and 0 are falsy
Truthy(x) == x # NoLimit /\ x # 0

\* game_time_limit and (game_loop * 0.725 * (1 / 16)) > game_time_limit
TimeExceeded(loop, limit) == Truthy(limit) /\ loop * 725 > limit * 16000

\* client._game_result or not ai.units or not ai.known_enemy_units
Terminal(gr, u, e) == gr # <<>> \/ ~u \/ ~e

\* mutant of Resolve: every engine result but Defeat counts as a Victory
ResolveMutant(gr, pid, e) ==
  IF gr # <<>>
    THEN (IF gr[pid] # "Defeat" THEN "Victory" ELSE "Defeat")
    ELSE (IF ~e THEN "Victory" ELSE "Defeat")

\* lines 53-61: the result of a terminal iteration
Resolve(gr, pid, e) ==
  IF gr # <<>>
    THEN (IF gr[pid] = "Victory" THEN "Victory" ELSE "Defeat")
    ELSE (IF ~e THEN "Victory" ELSE "Defeat")

\* mutant of WinsAfter: num_wins += 1 in every terminal iteration
WinsAfterMutant(w, gr, pid, e) == w + 1

\* lines 55-61: the change of num_wins in a terminal iteration
WinsAfter(w, gr, pid, e) == IF Resolve(gr, pid, e) = "Victory" THEN w + 1 ELSE w

\* mutant of ShouldReset: a new episode is started while run <= num_runs
ShouldResetLeqMutant(rs, r, n) == rs /\ r <= n

\* mutant of ShouldReset: a new episode is started whenever runs are left
ShouldResetOrMutant(rs, r, n) == rs \/ r < n

\* reset and run < num_runs
ShouldReset(rs, r, n) == rs /\ r < n

\* where the orchestrator continues once _play_game has returned
AfterPlay == IF save_replay_as THEN "save_replay" ELSE "leave"

(* ------------------------------- Init --------------------------------- *)
\* the two coroutines run_game hands to asyncio
Tasks == {"host", "join"}

\* run_game has not been called
RunGameIdle ==
  /\ players = <<>>
  /\ rg_pc = "idle"
  /\ portconfig = "None"
  /\ rg_result = Pending
  /\ servers = 0
  /\ task_pc = [t \in Tasks |-> "idle"]
  /\ task_portconfig = [t \in Tasks |-> "None"]
  /\ task_server = [t \in Tasks |-> 0]
  /\ task_player = [t \in Tasks |-> -1]
  /\ task_steps = [t \in Tasks |-> 0]
  /\ task_result = [t \in Tasks |-> Pending]

\* host_game_iter has not been called
IterIdle ==
  /\ it_pc = "idle"
  /\ new_playerconfig = "None"
  /\ aiter_players = "None"
  /\ aiter_run = 0
  /\ aiter_result = Pending
  /\ created_with = "None"
  /\ played_with = "None"
  /\ sent = <<>>
  /\ yielded = <<>>

\* _host_game / _join_game has been called
GameInit ==
  /\ role \in {"host", "join"}
  /\ kind \in {"Human", "Bot"}
  /\ realtime \in BOOLEAN
  \* arguments the chosen path never reads keep their defaults: step_time_limit is
  \* read only by a Bot's non-realtime step, reset and num_runs only by a Bot
  /\ step_time_limit \in (IF kind = "Bot" /\ ~realtime THEN StepTimeLimits ELSE {NoLimit})
  /\ \E tc \in TimeConfigs : game_time_limit = tc[1] /\ game_step = tc[2]
  /\ reset \in (IF kind = "Bot" THEN BOOLEAN ELSE {FALSE})
  /\ num_runs \in (IF kind = "Bot" THEN 1..MaxRuns ELSE {1})
  /\ save_replay_as \in BOOLEAN
  /\ pc = "ping"
  /\ exc = "none"
  /\ result = Pending
  /\ player_id = 0
  /\ game_result = <<>>
  /\ in_game = FALSE
  /\ game_loop = 0
  /\ conn_closed = FALSE
  /\ issued = {}
  /\ create_game_calls = 0
  /\ units = TRUE
  /\ known_enemy_units = TRUE
  /\ on_reset_calls = <<>>
  /\ on_end_calls = <<>>
  /\ last_hook = "none"
  /\ hook_outcome = "none"
  /\ on_step_calls = <<>>
  /\ since_on_step = <<>>
  /\ restart_game_calls = 0
  /\ iteration = 0
  /\ run = 0
  /\ num_wins = 0
  /\ res = "none"

\* no _host_game / _join_game call is being followed
GameIdle ==
  /\ GameInit
  /\ role = "host"
  /\ kind = "Human"
  /\ ~realtime
  /\ game_time_limit = NoLimit
  /\ ~save_replay_as

\* one call of _host_game or _join_game
Init == GameInit /\ RunGameIdle /\ IterIdle

(* ------------------- exception handlers of the code ------------------ *)
\* requests awaited inside the try blocks of _host_game / _join_game
TryRequests == {"join_game", "get_game_data", "get_game_info", "observation",
                "restart_game", "step", "h_observation", "h_step", "save_replay",
                "leave", "quit"}

\* except ConnectionAlreadyClosed: log and return None
ExceptConnectionAlreadyClosed ==
  /\ pc' = "done"
  /\ result' = RetNone
  /\ exc' = exc

\* mutant of ExceptException: the handler calls on_end(Defeat) and raises again
ExceptExceptionMutant ==
  /\ on_end_calls' = Append(on_end_calls, "Defeat")
  /\ last_hook' = "on_end"
  /\ result' = result
  /\ pc' = "raised"
  /\ exc' = "Exception"

\* except Exception around issue_events / on_step: ai.on_end(Result.Defeat); return num_wins
ExceptException ==
  /\ on_end_calls' = Append(on_end_calls, "Defeat")
  /\ last_hook' = "on_end"
  /\ result' = RetWins(num_wins)
  /\ pc' = AfterPlay
  /\ exc' = exc

(* --------------------- _host_game / _join_game ------------------------ *)
\* await server.ping(); a join then builds its Client, a host goes on to create the game
Ping ==
  /\ pc = "ping"
  /\ issued' = issued \cup {"ping"}
  /\ \/ /\ pc' = IF role = "host" THEN "create_game" ELSE "join_game"
        /\ UNCHANGED <<exc, conn_closed>>
     \/ /\ pc' = "raised"
        /\ exc' = "ConnectionAlreadyClosed"
        /\ conn_closed' = TRUE
  /\ UNCHANGED <<config, others, logs, result, player_id, game_result, in_game, game_loop,
                 create_game_calls, units, known_enemy_units, on_reset_calls,
                 on_end_calls, last_hook, hook_outcome, iteration, run, num_wins, res>>

\* mutant of SetupHostGame: a rejected create_game is tried once more
SetupHostGameMutant ==
  /\ pc = "create_game"
  /\ issued' = issued \cup {"create_game"}
  /\ create_game_calls' = create_game_calls + 1
  /\ \E error \in BOOLEAN :
       IF error
         THEN IF create_game_calls = 0
                THEN pc' = "create_game" /\ exc' = exc
                ELSE pc' = "raised" /\ exc' = "RuntimeError"
         ELSE pc' = "join_game" /\ exc' = exc
  /\ UNCHANGED <<config, others, logs, result, player_id, game_result, in_game, game_loop,
                 conn_closed, units, known_enemy_units, on_reset_calls, on_end_calls,
                 last_hook, hook_outcome, iteration, run, num_wins, res>>

\* _setup_host_game: create_game, RuntimeError when the response carries an error
SetupHostGame ==
  /\ pc = "create_game"
  /\ issued' = issued \cup {"create_game"}
  /\ create_game_calls' = create_game_calls + 1
  /\ \E error \in BOOLEAN :
       IF error
         THEN pc' = "raised" /\ exc' = "RuntimeError"
         ELSE pc' = "join_game" /\ exc' = exc
  /\ UNCHANGED <<config, others, logs, result, player_id, game_result, in_game, game_loop,
                 conn_closed, units, known_enemy_units, on_reset_calls, on_end_calls,
                 last_hook, hook_outcome, iteration, run, num_wins, res>>

\* _play_game: player_id = await client.join_game(...), then the dispatch on the player
JoinGame ==
  /\ pc = "join_game"
  /\ issued' = issued \cup {"join_game"}
  /\ player_id' \in PlayerIds
  /\ in_game' = TRUE
  /\ pc' = IF kind = "Human" THEN "h_observation" ELSE "get_game_data"
  /\ UNCHANGED <<config, others, logs, exc, result, game_result, game_loop, conn_closed,
                 create_game_calls, units, known_enemy_units, on_reset_calls,
                 on_end_calls, last_hook, hook_outcome, iteration, run, num_wins, res>>

\* any awaited request inside the try raises ConnectionAlreadyClosed
ConnectionClosed ==
  /\ pc \in TryRequests
  /\ issued' = issued \cup {pc}
  /\ conn_closed' = TRUE
  /\ restart_game_calls' = restart_game_calls + (IF pc = "restart_game" THEN 1 ELSE 0)
  /\ ExceptConnectionAlreadyClosed
  /\ UNCHANGED <<config, others, on_step_calls, since_on_step, player_id, game_result,
                 in_game, game_loop, create_game_calls, units, known_enemy_units,
                 on_reset_calls, on_end_calls, last_hook, hook_outcome, iteration, run,
                 num_wins, res>>

\* await client.save_replay(...)
SaveReplay ==
  /\ pc = "save_replay"
  /\ issued' = issued \cup {"save_replay"}
  /\ pc' = "leave"
  /\ UNCHANGED <<config, others, logs, exc, result, player_id, game_result, in_game,
                 game_loop, conn_closed, create_game_calls, units, known_enemy_units,
                 on_reset_calls, on_end_calls, last_hook, hook_outcome, iteration, run,
                 num_wins, res>>

\* await client.leave()
Leave ==
  /\ pc = "leave"
  /\ issued' = issued \cup {"leave"}
  /\ in_game' = FALSE
  /\ pc' = "quit"
  /\ UNCHANGED <<config, others, logs, exc, result, player_id, game_result, game_loop,
                 conn_closed, create_game_calls, units, known_enemy_units, on_reset_calls,
                 on_end_calls, last_hook, hook_outcome, iteration, run, num_wins, res>>

\* await client.quit(); return result
Quit ==
  /\ pc = "quit"
  /\ issued' = issued \cup {"quit"}
  /\ pc' = "done"
  /\ UNCHANGED <<config, others, logs, exc, result, player_id, game_result, in_game,
                 game_loop, conn_closed, create_game_calls, units, known_enemy_units,
                 on_reset_calls, on_end_calls, last_hook, hook_outcome, iteration, run,
                 num_wins, res>>

(* --------------------------- _play_game_ai ---------------------------- *)
\* game_data = await client.get_game_data()
GetGameData ==
  /\ pc = "get_game_data"
  /\ issued' = issued \cup {"get_game_data"}
  /\ pc' = "get_game_info"
  /\ UNCHANGED <<config, others, logs, exc, result, player_id, game_result, in_game,
                 game_loop, conn_closed, create_game_calls, units, known_enemy_units,
                 on_reset_calls, on_end_calls, last_hook, hook_outcome, iteration, run,
                 num_wins, res>>

\* game_info = await client.get_game_info(); _prepare_start; on_start; on_reset(None);
\* iteration = 0; run = 0; num_wins = 0
GetGameInfo ==
  /\ pc = "get_game_info"
  /\ issued' = issued \cup {"get_game_info"}
  /\ on_reset_calls' = Append(on_reset_calls, "None")
  /\ last_hook' = "on_reset"
  /\ iteration' = 0
  /\ run' = 0
  /\ num_wins' = 0
  /\ pc' = "observation"
  /\ UNCHANGED <<config, others, logs, exc, result, player_id, game_result, in_game,
                 game_loop, conn_closed, create_game_calls, units, known_enemy_units,
                 on_end_calls, hook_outcome, res>>

\* what an observation can show of the engine's step counter: in realtime the engine
\* advances on its own, otherwise only client.step() advances it
ObservedLoops ==
  IF realtime
    THEN {g \in {game_loop, game_loop + game_step} : g <= MaxIter * game_step}
    ELSE {game_loop}

\* what an observation can do to client._game_result: the engine may report the end
ObservedResults == IF game_result # <<>> THEN {game_result} ELSE {<<>>} \cup GameResults

\* mutant of TimeUp: the spent budget is reported to the AI as a Defeat
TimeUpMutant(gl, gr) ==
  /\ game_loop' = gl
  /\ game_result' = gr
  /\ on_end_calls' = Append(on_end_calls, "Defeat")
  /\ last_hook' = "on_end"
  /\ result' = RetWins(num_wins)
  /\ pc' = AfterPlay
  /\ UNCHANGED <<units, known_enemy_units, on_reset_calls, iteration, run, num_wins, res>>

\* lines 46-48: the game-time budget is spent: ai.on_end(Result.Tie); return num_wins
TimeUp(gl, gr) ==
  /\ game_loop' = gl
  /\ game_result' = gr
  /\ on_end_calls' = Append(on_end_calls, "Tie")
  /\ last_hook' = "on_end"
  /\ result' = RetWins(num_wins)
  /\ pc' = AfterPlay
  /\ UNCHANGED <<units, known_enemy_units, on_reset_calls, iteration, run, num_wins, res>>

\* mutant of EpisodeEnd: on_end is called at the end of every episode
EpisodeEndMutant(gl, gr, u, e) ==
  /\ game_loop' = gl
  /\ game_result' = gr
  /\ units' = u
  /\ known_enemy_units' = e
  /\ run' = run + 1
  /\ res' = Resolve(gr, player_id, e)
  /\ num_wins' = WinsAfter(num_wins, gr, player_id, e)
  /\ on_end_calls' = Append(on_end_calls, Resolve(gr, player_id, e))
  /\ last_hook' = "on_end"
  /\ IF ShouldReset(reset, run + 1, num_runs)
       THEN /\ pc' = "restart_game"
            /\ UNCHANGED result
       ELSE /\ result' = RetWins(WinsAfter(num_wins, gr, player_id, e))
            /\ pc' = AfterPlay
  /\ UNCHANGED <<on_reset_calls, iteration>>

\* lines 50-72: ai._prepare_step(gs), then the terminal branch
EpisodeEnd(gl, gr, u, e) ==
  /\ game_loop' = gl
  /\ game_result' = gr
  /\ units' = u
  /\ known_enemy_units' = e
  /\ run' = run + 1
  /\ res' = Resolve(gr, player_id, e)
  /\ num_wins' = WinsAfter(num_wins, gr, player_id, e)
  /\ IF ShouldReset(reset, run + 1, num_runs)
       THEN /\ pc' = "restart_game"
            /\ last_hook' = "_prepare_step"
            /\ UNCHANGED <<on_end_calls, result>>
       ELSE /\ on_end_calls' = Append(on_end_calls, Resolve(gr, player_id, e))
            /\ last_hook' = "on_end"
            /\ result' = RetWins(WinsAfter(num_wins, gr, player_id, e))
            /\ pc' = AfterPlay
  /\ UNCHANGED <<on_reset_calls, iteration>>

\* lines 50-51, 74-77: ai._prepare_step(gs), not terminal; _prepare_first_step at iteration 0
EpisodeGoesOn(gl, gr, u, e) ==
  /\ game_loop' = gl
  /\ game_result' = gr
  /\ units' = u
  /\ known_enemy_units' = e
  /\ last_hook' = IF iteration = 0 THEN "_prepare_first_step" ELSE "_prepare_step"
  /\ pc' = "issue_events"
  /\ UNCHANGED <<on_reset_calls, on_end_calls, result, iteration, run, num_wins, res>>

\* lines 43-77: state = await client.observation() and the code up to the next await
Observation ==
  /\ pc = "observation"
  /\ issued' = issued \cup {"observation"}
  /\ since_on_step' = Append(since_on_step, "observation")
  /\ hook_outcome' = "none"
  /\ \E gl \in ObservedLoops, gr \in ObservedResults, u \in BOOLEAN, e \in BOOLEAN :
       IF TimeExceeded(gl, game_time_limit)
         THEN TimeUp(gl, gr)
         ELSE IF Terminal(gr, u, e)
                THEN EpisodeEnd(gl, gr, u, e)
                ELSE EpisodeGoesOn(gl, gr, u, e)
  /\ UNCHANGED <<config, others, on_step_calls, restart_game_calls, exc, player_id,
                 in_game, conn_closed, create_game_calls>>

\* mutant of RestartGame: the new episode goes on counting its iterations
RestartGameMutant ==
  /\ pc = "restart_game"
  /\ issued' = issued \cup {"restart_game"}
  /\ restart_game_calls' = restart_game_calls + 1
  /\ on_reset_calls' = Append(on_reset_calls, res)
  /\ on_step_calls' = <<>>
  /\ since_on_step' = <<>>
  /\ last_hook' = "on_reset"
  /\ game_result' = <<>>
  /\ game_loop' = 0
  /\ pc' = "observation"
  /\ UNCHANGED <<config, others, exc, result, player_id, in_game, conn_closed,
                 create_game_calls, units, known_enemy_units, on_end_calls, hook_outcome,
                 iteration, run, num_wins, res>>

\* lines 63-69: await server.restart_game(); ai.on_reset(res); client._game_result = None;
\* iteration = 0; continue.  The restarted game counts its steps from 0 again.
RestartGame ==
  /\ pc = "restart_game"
  /\ issued' = issued \cup {"restart_game"}
  /\ restart_game_calls' = restart_game_calls + 1
  /\ on_reset_calls' = Append(on_reset_calls, res)
  /\ on_step_calls' = <<>>
  /\ since_on_step' = <<>>
  /\ last_hook' = "on_reset"
  /\ game_result' = <<>>
  /\ iteration' = 0
  /\ game_loop' = 0
  /\ pc' = "observation"
  /\ UNCHANGED <<config, others, exc, result, player_id, in_game, conn_closed,
                 create_game_calls, units, known_enemy_units, on_end_calls, hook_outcome,
                 run, num_wins, res>>

\* lines 79-80, 90-95: await ai.issue_events(); any exception ends the run with Defeat
IssueEvents ==
  /\ pc = "issue_events"
  /\ \E outcome \in {"ok", "error", "closed"} :
       /\ hook_outcome' = outcome
       /\ conn_closed' = (conn_closed \/ outcome = "closed")
       /\ IF outcome = "ok"
            THEN /\ last_hook' = "issue_events"
                 /\ pc' = "on_step"
                 /\ UNCHANGED <<on_end_calls, result, exc>>
            ELSE ExceptException
  /\ UNCHANGED <<config, others, logs, player_id, game_result, in_game, game_loop, issued,
                 create_game_calls, units, known_enemy_units, on_reset_calls, iteration,
                 run, num_wins, res>>

\* outcomes of await ai.on_step(iteration): the step timeout exists only under
\* async_timeout.timeout(step_time_limit) with a limit, i.e. not in realtime
StepOutcomes ==
  {"ok", "error", "closed"}
    \cup (IF ~realtime /\ step_time_limit # NoLimit THEN {"timeout"} ELSE {})

\* mutant of HookReturns: the step timeout is not caught by the inner try
HookReturnsMutant(outcome) == outcome = "ok"

\* lines 85-89: on_step returned, or its asyncio.TimeoutError was caught and logged
HookReturns(outcome) == outcome \in {"ok", "timeout"}

\* what the hook can have done to the client: it may have left the game (in_game
\* False), and the engine's result may or may not have been stored by then
HookClientStates ==
  {<<TRUE, game_result>>} \cup
  (IF realtime THEN {} ELSE {<<FALSE, gr>> : gr \in {<<>>} \cup GameResults})

\* mutant of AfterHook: the realtime loop checks in_game and steps the game as well
AfterHookMutant(ig, gr) ==
  /\ in_game' = ig
  /\ game_result' = gr
  /\ IF ~ig
       THEN IF gr = <<>>
              THEN /\ pc' = "raised"
                   /\ exc' = "TypeError"
                   /\ UNCHANGED <<on_end_calls, result, iteration, last_hook>>
              ELSE /\ on_end_calls' = Append(on_end_calls, gr[player_id])
                   /\ last_hook' = "on_end"
                   /\ result' = RetWins(num_wins)
                   /\ pc' = AfterPlay
                   /\ UNCHANGED <<exc, iteration>>
       ELSE /\ pc' = "step"
            /\ UNCHANGED <<on_end_calls, result, exc, iteration, last_hook>>

\* lines 99-106 after the hook returned or timed out
AfterHook(ig, gr) ==
  /\ in_game' = ig
  /\ game_result' = gr
  /\ IF realtime
       THEN /\ iteration < MaxIter
            /\ iteration' = iteration + 1
            /\ pc' = "observation"
            /\ UNCHANGED <<on_end_calls, result, exc, last_hook>>
       ELSE IF ~ig
              THEN IF gr = <<>>
                     THEN \* None[player_id]
                          /\ pc' = "raised"
                          /\ exc' = "TypeError"
                          /\ UNCHANGED <<on_end_calls, result, iteration, last_hook>>
                     ELSE /\ on_end_calls' = Append(on_end_calls, gr[player_id])
                          /\ last_hook' = "on_end"
                          /\ result' = RetWins(num_wins)
                          /\ pc' = AfterPlay
                          /\ UNCHANGED <<exc, iteration>>
              ELSE /\ pc' = "step"
                   /\ UNCHANGED <<on_end_calls, result, exc, iteration, last_hook>>

\* lines 81-106: await ai.on_step(iteration), swallowing the step timeout
OnStep ==
  /\ pc = "on_step"
  /\ on_step_calls' = Append(on_step_calls, iteration)
  /\ since_on_step' = <<>>
  /\ \E outcome \in StepOutcomes :
       /\ hook_outcome' = outcome
       /\ conn_closed' = (conn_closed \/ outcome = "closed")
       /\ IF HookReturns(outcome)
            THEN \E cs \in HookClientStates : AfterHook(cs[1], cs[2])
            ELSE /\ ExceptException
                 /\ UNCHANGED <<in_game, game_result, iteration>>
  /\ UNCHANGED <<config, others, restart_game_calls, player_id, game_loop, issued,
                 create_game_calls, units, known_enemy_units, on_reset_calls, run,
                 num_wins, res>>

\* lines 104-106: await client.step(); iteration += 1
ClientStep ==
  /\ pc = "step"
  /\ iteration < MaxIter
  /\ issued' = issued \cup {"step"}
  /\ since_on_step' = Append(since_on_step, "step")
  /\ game_loop' = game_loop + game_step
  /\ iteration' = iteration + 1
  /\ pc' = "observation"
  /\ UNCHANGED <<config, others, on_step_calls, restart_game_calls, exc, result,
                 player_id, game_result, in_game, conn_closed, create_game_calls, units,
                 known_enemy_units, on_reset_calls, on_end_calls, last_hook, hook_outcome,
                 run, num_wins, res>>

(* -------------------------- _play_game_human -------------------------- *)
\* lines 19-27: state = await client.observation() and the checks after it
HumanObservation ==
  /\ pc = "h_observation"
  /\ issued' = issued \cup {"observation"}
  /\ \E gl \in ObservedLoops, gr \in ObservedResults :
       /\ game_loop' = gl
       /\ game_result' = gr
       /\ IF gr # <<>>
            THEN result' = RetResult(gr[player_id]) /\ pc' = AfterPlay /\ exc' = exc
            ELSE IF TimeExceeded(gl, game_time_limit)
                   THEN \* line 24 prints state.observation.game_loop, line 23 read
                        \* state.observation.observation.game_loop: where the response
                        \* has no game_loop of its own, the print raises AttributeError
                        \/ result' = RetResult("Tie") /\ pc' = AfterPlay /\ exc' = exc
                        \/ result' = result /\ pc' = "raised" /\ exc' = "AttributeError"
                   ELSE /\ pc' = IF realtime THEN "h_observation" ELSE "h_step"
                        /\ result' = result
                        /\ exc' = exc
  /\ UNCHANGED <<config, others, logs, player_id, in_game, conn_closed, create_game_calls,
                 units, known_enemy_units, on_reset_calls, on_end_calls, last_hook,
                 hook_outcome, iteration, run, num_wins, res>>

\* line 28: await client.step()
HumanStep ==
  /\ pc = "h_step"
  /\ game_loop + game_step <= MaxIter * game_step
  /\ issued' = issued \cup {"step"}
  /\ game_loop' = game_loop + game_step
  /\ pc' = "h_observation"
  /\ UNCHANGED <<config, others, logs, exc, result, player_id, game_result, in_game,
                 conn_closed, create_game_calls, units, known_enemy_units, on_reset_calls,
                 on_end_calls, last_hook, hook_outcome, iteration, run, num_wins, res>>

(* --------------------------- specification ---------------------------- *)
Next ==
  \/ Ping
  \/ SetupHostGame
  \/ JoinGame
  \/ ConnectionClosed
  \/ GetGameData
  \/ GetGameInfo
  \/ Observation
  \/ RestartGame
  \/ IssueEvents
  \/ OnStep
  \/ ClientStep
  \/ HumanObservation
  \/ HumanStep
  \/ SaveReplay
  \/ Leave
  \/ Quit

Spec == Init /\ [][Next]_vars

(* ------------- the non-realtime AI loop, run without a bound ------------ *)
\* A Bot played in non-realtime mode with a game_time_limit given, all else as in Init
LiveInit == Init /\ kind = "Bot" /\ ~realtime /\ game_time_limit # NoLimit

\* lines 81-106 as in OnStep; the call log keeps the arguments below MaxIter only
OnStepLive ==
  /\ pc = "on_step"
  /\ on_step_calls' = (IF iteration < MaxIter THEN Append(on_step_calls, iteration)
                                              ELSE on_step_calls)
  /\ since_on_step' = <<>>
  /\ \E outcome \in StepOutcomes :
       /\ hook_outcome' = outcome
       /\ conn_closed' = (conn_closed \/ outcome = "closed")
       /\ IF HookReturns(outcome)
            THEN \E cs \in HookClientStates : AfterHook(cs[1], cs[2])
            ELSE /\ ExceptException
                 /\ UNCHANGED <<in_game, game_result, iteration>>
  /\ UNCHANGED <<config, others, restart_game_calls, player_id, game_loop, issued,
                 create_game_calls, units, known_enemy_units, on_reset_calls, run,
                 num_wins, res>>

\* lines 104-106 as in ClientStep, with no bound on the number of steps: iteration
\* MaxIter and game_loop MaxIter * game_step stand for every larger value (the game-time
\* test of line 46 is the same for all of them with the limits of TimeConfigs)
ClientStepLive ==
  /\ pc = "step"
  /\ issued' = issued \cup {"step"}
  /\ since_on_step' = Append(since_on_step, "step")
  /\ game_loop' = (IF game_loop < MaxIter * game_step THEN game_loop + game_step
                                                      ELSE game_loop)
  /\ iteration' = (IF iteration < MaxIter THEN iteration + 1 ELSE iteration)
  /\ pc' = "observation"
  /\ UNCHANGED <<config, others, on_step_calls, restart_game_calls, exc, result,
                 player_id, game_result, in_game, conn_closed, create_game_calls, units,
                 known_enemy_units, on_reset_calls, on_end_calls, last_hook, hook_outcome,
                 run, num_wins, res>>

\* every request is answered (no ConnectionClosed step)
NextLive ==
  \/ Ping
  \/ SetupHostGame
  \/ JoinGame
  \/ GetGameData
  \/ GetGameInfo
  \/ Observation
  \/ RestartGame
  \/ IssueEvents
  \/ OnStepLive
  \/ ClientStepLive
  \/ SaveReplay
  \/ Leave
  \/ Quit

\* the event loop runs the one task whenever it can take a step
SpecLive == LiveInit /\ [][NextLive]_vars /\ WF_vars(NextLive)

(* ------------------------------ run_game ------------------------------ *)
\* player.Human, player.Bot, player.Computer
Kinds == {"Human", "Bot", "Computer"}

\* the players lists given to run_game: players[0] is played by the host
PlayerLists ==
  {p \in UNION {[1..n -> Kinds] : n \in 1..MaxPlayers} : p[1] \in {"Human", "Bot"}}

\* sum(isinstance(p, (Human, Bot)) for p in players)
NumControlled(p) == Cardinality({i \in DOMAIN p : p[i] \in {"Human", "Bot"}})

\* what _play_game can return for a participant: a Result for a Human, num_wins for a
\* Bot; a Computer cannot be played (player.ai, line 119)
PlayResults(k) ==
  IF k = "Human" THEN {RetResult(r) : r \in Results}
  ELSE IF k = "Bot" THEN {RetWins(n) : n \in 0..1}
  ELSE {}

\* the list asyncio.gather gives for the two coroutines, in their order
Gathered(h, j) == [kind |-> "list", host |-> h, join |-> j]

\* run_game is called
RunGameInit ==
  /\ GameIdle
  /\ IterIdle
  /\ players \in PlayerLists
  /\ rg_pc = "start"
  /\ portconfig = "None"
  /\ rg_result = Pending
  /\ servers = 0
  /\ task_pc = [t \in Tasks |-> "idle"]
  /\ task_portconfig = [t \in Tasks |-> "None"]
  /\ task_server = [t \in Tasks |-> 0]
  /\ task_player = [t \in Tasks |-> -1]
  /\ task_steps = [t \in Tasks |-> 0]
  /\ task_result = [t \in Tasks |-> Pending]

\* lines 224-235: the branch of run_game and the coroutines it hands to the event loop
RunGame ==
  /\ rg_pc = "start"
  /\ IF NumControlled(players) > 1
       THEN /\ portconfig' = "Portconfig"
            /\ task_pc' = [t \in Tasks |-> "process"]
            /\ task_portconfig' = [t \in Tasks |-> "Portconfig"]
            /\ task_player' = [t \in Tasks |-> IF t = "host" THEN 0 ELSE 1]
            /\ rg_pc' = "gather"
       ELSE /\ portconfig' = "None"
            /\ task_pc' = [t \in Tasks |-> IF t = "host" THEN "process" ELSE "idle"]
            /\ task_portconfig' = [t \in Tasks |-> "None"]
            /\ task_player' = [t \in Tasks |-> IF t = "host" THEN 0 ELSE -1]
            /\ rg_pc' = "single"
  /\ UNCHANGED <<gameVars, iterVars, players, rg_result, servers, task_server,
                 task_steps, task_result>>

\* the event loop of run_until_complete is running the coroutines
Running == rg_pc \in {"gather", "single"}

\* lines 143, 202: async with SC2Process() as server
StartProcess(t) ==
  /\ Running
  /\ task_pc[t] = "process"
  /\ servers' = servers + 1
  /\ task_server' = [task_server EXCEPT ![t] = servers + 1]
  /\ task_pc' = [task_pc EXCEPT ![t] = "ping"]
  /\ UNCHANGED <<gameVars, iterVars, players, rg_pc, portconfig, rg_result,
                 task_portconfig, task_player, task_steps, task_result>>

\* lines 144, 203: await server.ping(), outside the try block
TaskPing(t) ==
  /\ Running
  /\ task_pc[t] = "ping"
  /\ \E next \in {IF t = "host" THEN "create_game" ELSE "play", "raised"} :
       task_pc' = [task_pc EXCEPT ![t] = next]
  /\ UNCHANGED <<gameVars, iterVars, players, rg_pc, portconfig, rg_result, servers,
                 task_portconfig, task_server, task_player, task_steps, task_result>>

\* line 146: client = await _setup_host_game(...), RuntimeError on a rejected game
TaskCreateGame(t) ==
  /\ Running
  /\ t = "host"
  /\ task_pc[t] = "create_game"
  /\ \E next \in {"play", "raised"} : task_pc' = [task_pc EXCEPT ![t] = next]
  /\ UNCHANGED <<gameVars, iterVars, players, rg_pc, portconfig, rg_result, servers,
                 task_portconfig, task_server, task_player, task_steps, task_result>>

\* lines 150, 210: one request of _play_game is answered and the match goes on
TaskPlayStep(t) ==
  /\ Running
  /\ task_pc[t] = "play"
  /\ task_steps[t] < MaxIter
  /\ task_steps' = [task_steps EXCEPT ![t] = @ + 1]
  /\ UNCHANGED <<gameVars, iterVars, players, rg_pc, portconfig, rg_result, servers,
                 task_pc, task_portconfig, task_server, task_player, task_result>>

\* lines 150-155, 210-214: _play_game returns for players[0] / players[1], or raises;
\* only the host is given save_replay_as (line 225)
TaskPlayEnd(t) ==
  /\ Running
  /\ task_pc[t] = "play"
  /\ \/ \E r \in PlayResults(players[task_player[t] + 1]) :
          /\ task_result' = [task_result EXCEPT ![t] = r]
          /\ \E next \in (IF t = "host" THEN {"save_replay", "leave"} ELSE {"leave"}) :
               task_pc' = [task_pc EXCEPT ![t] = next]
     \/ /\ task_pc' = [task_pc EXCEPT ![t] = "raised"]
        /\ UNCHANGED task_result
  /\ UNCHANGED <<gameVars, iterVars, players, rg_pc, portconfig, rg_result, servers,
                 task_portconfig, task_server, task_player, task_steps>>

\* lines 153-156, 213-215: save_replay, leave, quit; lines 161, 220: return result
TaskWindUp(t) ==
  /\ Running
  /\ task_pc[t] \in {"save_replay", "leave", "quit"}
  /\ task_pc' = [task_pc EXCEPT ![t] = CASE task_pc[t] = "save_replay" -> "leave"
                                         [] task_pc[t] = "leave" -> "quit"
                                         [] task_pc[t] = "quit" -> "done"]
  /\ UNCHANGED <<gameVars, iterVars, players, rg_pc, portconfig, rg_result, servers,
                 task_portconfig, task_server, task_player, task_steps, task_result>>

\* lines 157-159, 216-218: ConnectionAlreadyClosed inside the try block: return None
TaskClosed(t) ==
  /\ Running
  /\ task_pc[t] \in {"play", "save_replay", "leave", "quit"}
  /\ task_pc' = [task_pc EXCEPT ![t] = "done"]
  /\ task_result' = [task_result EXCEPT ![t] = RetNone]
  /\ UNCHANGED <<gameVars, iterVars, players, rg_pc, portconfig, rg_result, servers,
                 task_portconfig, task_server, task_player, task_steps>>

\* mutant of GatherDone: the first coroutine to finish ends the wait
GatherDoneMutant == \E t \in Tasks : task_pc[t] = "done"

\* asyncio.gather / run_until_complete: every coroutine handed over has returned
GatherDone == \A t \in Tasks : task_pc[t] \in {"done", "idle"}

\* lines 229-236: run_until_complete hands back the gathered results; return result
RunGameReturns ==
  /\ Running
  /\ GatherDone
  /\ rg_result' = IF rg_pc = "gather"
                    THEN Gathered(task_result["host"], task_result["join"])
                    ELSE task_result["host"]
  /\ rg_pc' = "returned"
  /\ UNCHANGED <<gameVars, iterVars, players, portconfig, servers, task_pc,
                 task_portconfig, task_server, task_player, task_steps, task_result>>

\* lines 229-235: the first exception of a coroutine is raised out of
\* run_until_complete; the other coroutine is left where it is
RunGameRaises ==
  /\ Running
  /\ \E t \in Tasks : task_pc[t] = "raised"
  /\ rg_pc' = "raised"
  /\ UNCHANGED <<gameVars, iterVars, players, portconfig, rg_result, servers, task_pc,
                 task_portconfig, task_server, task_player, task_steps, task_result>>

RunGameNext ==
  \/ RunGame
  \/ \E t \in Tasks : StartProcess(t)
  \/ \E t \in Tasks : TaskPing(t)
  \/ \E t \in Tasks : TaskCreateGame(t)
  \/ \E t \in Tasks : TaskPlayStep(t)
  \/ \E t \in Tasks : TaskPlayEnd(t)
  \/ \E t \in Tasks : TaskWindUp(t)
  \/ \E t \in Tasks : TaskClosed(t)
  \/ RunGameReturns
  \/ RunGameRaises

SpecRunGame == RunGameInit /\ [][RunGameNext]_vars

(* ------------------- host_game_iter / _host_game_aiter ------------------ *)
\* the players argument of host_game_iter, and the lists a consumer may send later
FirstPlayers == "P0"
NewPlayerLists == {"P1", "P2"}

\* host_game_iter is called: nothing runs before the consumer's first next()
IterInit ==
  /\ GameIdle
  /\ RunGameIdle
  /\ it_pc = "created"
  /\ new_playerconfig = "None"
  /\ aiter_players = FirstPlayers
  /\ aiter_run = 0
  /\ aiter_result = Pending
  /\ created_with = "None"
  /\ played_with = "None"
  /\ sent = <<>>
  /\ yielded = <<>>

\* mutant of NewPlayers: whatever was sent replaces the players
NewPlayersMutant(ps, new_players) == new_players

\* lines 189-191: if new_players is not None: players = new_players
NewPlayers(ps, new_players) == IF new_players # "None" THEN new_players ELSE ps

\* lines 194-198 and 189-191: the consumer advances the iterator with next() or
\* send(x); host_game_iter passes the value on with game.asend(new_playerconfig). A
\* generator that has just been created takes None only.
IterAdvance ==
  /\ it_pc \in {"created", "suspended"}
  /\ Len(sent) < MaxEpisodes
  /\ \E x \in {"None"} \cup (IF it_pc = "created" THEN {} ELSE NewPlayerLists) :
       /\ sent' = Append(sent, x)
       /\ new_playerconfig' = x
       /\ aiter_players' = IF it_pc = "created" THEN aiter_players
                                                ELSE NewPlayers(aiter_players, x)
  /\ it_pc' = "ping"
  /\ UNCHANGED <<gameVars, runGameVars, aiter_run, aiter_result, created_with,
                 played_with, yielded>>

\* line 171: await server.ping(), outside the try block
IterPing ==
  /\ it_pc = "ping"
  /\ it_pc' \in {"create_game", "raised"}
  /\ UNCHANGED <<gameVars, runGameVars, new_playerconfig, aiter_players, aiter_run,
                 aiter_result, created_with, played_with, sent, yielded>>

\* lines 173-174: client = await _setup_host_game(server, map_settings, players, realtime)
IterSetupHostGame ==
  /\ it_pc = "create_game"
  /\ created_with' = aiter_players
  /\ it_pc' \in {"play", "raised"}
  /\ UNCHANGED <<gameVars, runGameVars, new_playerconfig, aiter_players, aiter_run,
                 aiter_result, played_with, sent, yielded>>

\* lines 177-181: result = await _play_game(server, players[0], ...); run += 1
IterPlay ==
  /\ it_pc = "play"
  /\ played_with' = aiter_players
  /\ \E r \in PlayResults("Bot") \cup PlayResults("Human") : aiter_result' = r
  /\ aiter_run' = aiter_run + 1
  /\ it_pc' \in {"save_replay", "leave"}
  /\ UNCHANGED <<gameVars, runGameVars, new_playerconfig, aiter_players, created_with,
                 sent, yielded>>

\* lines 180-181: await client.save_replay('Replays/' + str(run) + save_replay_as)
IterSaveReplay ==
  /\ it_pc = "save_replay"
  /\ it_pc' = "leave"
  /\ UNCHANGED <<gameVars, runGameVars, new_playerconfig, aiter_players, aiter_run,
                 aiter_result, created_with, played_with, sent, yielded>>

\* lines 182, 187: await client.leave(); new_players = yield result
IterLeave ==
  /\ it_pc = "leave"
  /\ yielded' = Append(yielded, aiter_result)
  /\ it_pc' = "suspended"
  /\ UNCHANGED <<gameVars, runGameVars, new_playerconfig, aiter_players, aiter_run,
                 aiter_result, created_with, played_with, sent>>

\* lines 183-185: except ConnectionAlreadyClosed: return, which ends the generator
IterClosed ==
  /\ it_pc \in {"play", "save_replay", "leave"}
  /\ it_pc' = "ended"
  /\ UNCHANGED <<gameVars, runGameVars, new_playerconfig, aiter_players, aiter_run,
                 aiter_result, created_with, played_with, sent, yielded>>

IterNext ==
  \/ IterAdvance
  \/ IterPing
  \/ IterSetupHostGame
  \/ IterPlay
  \/ IterSaveReplay
  \/ IterLeave
  \/ IterClosed

SpecIter == IterInit /\ [][IterNext]_vars

(* ------------------------------ claims -------------------------------- *)
\* the orchestrator holds the value _play_game returned and has not finished yet
AfterPlayPcs == {"save_replay", "leave", "quit"}

\* number of Victory entries of a call log
Victories(s) == Cardinality({i \in DOMAIN s : s[i] = "Victory"})

\* C1: in _play_game_ai, for every configured game_time_limit (one that is not None),
\* an observation whose game_loop * 0.725 / 16 is strictly greater than the limit ends
\* the episode with on_end(Tie) and the return of num_wins, whatever the engine result
\* and the unit counts, with no issue_events / on_step in that iteration.
C1_TimeLimitTie ==
  [][(/\ pc = "observation"
      /\ pc' # "done"
      /\ game_time_limit # NoLimit
      /\ game_loop' * 725 > game_time_limit * 16000)
     => (/\ on_end_calls' = Append(on_end_calls, "Tie")
         /\ last_hook' = "on_end"
         /\ result' = RetWins(num_wins)
         /\ pc' \in AfterPlayPcs)]_vars

\* C2 scenario: game_time_limit = 60, no episode has been terminal (the AI always had
\* units and enemies, the engine never reported a result), and the AI loop has returned
\* right after an observation with game_loop * 0.725 / 16 > 60
C2_Scenario ==
  /\ kind = "Bot"
  /\ game_time_limit = 60
  /\ pc \in AfterPlayPcs
  /\ run = 0
  /\ game_result = <<>>
  /\ game_loop * 725 > 60 * 16000

\* C2 as stated: in that scenario the AI loop returns Tie to its caller and on_end is
\* never called with Victory or Defeat.
C2_ReturnsTie ==
  C2_Scenario =>
    /\ result = RetResult("Tie")
    /\ \A i \in DOMAIN on_end_calls : on_end_calls[i] \notin {"Victory", "Defeat"}

\* C2 amended: in that scenario the AI loop has called on_end exactly once, with Tie,
\* and returns num_wins, which is 0, to its caller (not the value Tie).
C2_ReturnsNumWins ==
  C2_Scenario =>
    /\ result = RetWins(0)
    /\ num_wins = 0
    /\ on_end_calls = <<"Tie">>
    /\ last_hook = "on_end"

C2_Witness ==
  C2_Scenario /\ ~realtime /\ game_step = 512 /\ iteration = 3 /\ on_end_calls = <<"Tie">>

\* C3: at every loop head and at return, num_wins equals the number of episodes whose
\* resolved result (the result passed to on_reset or on_end) was Victory.
C3_WinsCountVictories ==
  (kind = "Bot" /\ pc \in {"observation", "issue_events", "on_step", "step"} \cup AfterPlayPcs)
    => num_wins = Victories(on_reset_calls) + Victories(on_end_calls)

\* C4 scenario: reset mode, num_runs = 3, the first two episodes resolved Defeat, the
\* engine reported Victory for the participant in the third, and the loop has returned
C4_Scenario ==
  /\ kind = "Bot"
  /\ reset
  /\ num_runs = 3
  /\ run = 3
  /\ pc \in AfterPlayPcs
  /\ game_result # <<>>
  /\ game_result[player_id] = "Victory"
  /\ \A i \in DOMAIN on_reset_calls : i > 1 => on_reset_calls[i] = "Defeat"

\* C4 as stated: the loop returns 1 with num_wins = 1 and on_reset has been called
\* exactly twice over the whole run.
C4_OnResetTwice ==
  C4_Scenario =>
    /\ result = RetWins(1)
    /\ num_wins = 1
    /\ Len(on_reset_calls) = 2

\* C4 amended: the loop returns 1 with num_wins = 1; on_reset has been called three
\* times: once with None before the first episode, then with Defeat after episodes 1
\* and 2, and not after episode 3, which ends with on_end(Victory).
C4_OnResetThrice ==
  C4_Scenario =>
    /\ result = RetWins(1)
    /\ num_wins = 1
    /\ on_reset_calls = <<"None", "Defeat", "Defeat">>
    /\ on_end_calls = <<"Victory">>
    /\ last_hook = "on_end"

C4_Witness == C4_Scenario /\ result = RetWins(1) /\ Len(on_reset_calls) = 3

\* C5: a terminal iteration (engine result present, or units empty, or enemies empty)
\* resolves to Victory if the engine reports Victory for player_id, to Defeat for any
\* other engine result, and without an engine result to Victory when no enemy is known
\* (even with no units left) and to Defeat otherwise; that result is the one handed to
\* on_end when the loop returns.
C5_ResolvedResult ==
  [][(pc = "observation" /\ pc' # "done"
      /\ ~TimeExceeded(game_loop', game_time_limit))
     => /\ (run' = run + 1) <=> (game_result' # <<>> \/ ~units' \/ ~known_enemy_units')
        /\ (run' = run + 1) =>
             /\ res' = CASE game_result' # <<>> /\ game_result'[player_id] = "Victory"
                              -> "Victory"
                         [] game_result' # <<>> /\ game_result'[player_id] # "Victory"
                              -> "Defeat"
                         [] game_result' = <<>> /\ ~known_enemy_units' -> "Victory"
                         [] OTHER -> "Defeat"
             /\ pc' \in AfterPlayPcs => on_end_calls' = <<res'>>]_vars

C5_Witness ==
  /\ pc = "restart_game"
  /\ game_result = <<>>
  /\ ~units
  /\ ~known_enemy_units
  /\ res = "Victory"

\* C6: in non-realtime mode a step timeout of on_step does not end the episode: no
\* on_end is called for it and the loop does not return; the loop goes on as after an
\* on_step that completed in time: with the client in the game, to client.step(), which
\* advances the engine by game_step, and then to iteration + 1 (with the client out of
\* the game, to the resignation check of lines 100-102).
C6_TimeoutContinues ==
  /\ [][(pc = "on_step" /\ hook_outcome' = "timeout")
        => /\ ~realtime
           /\ in_game' => /\ pc' = "step"
                          /\ exc' = exc
                          /\ on_end_calls' = on_end_calls
                          /\ result' = Pending
                          /\ iteration' = iteration
           \* out of the game, the end is that of the resignation check, not a fault
           /\ ~in_game' => IF game_result' = <<>>
                              THEN exc' = "TypeError" /\ on_end_calls' = on_end_calls
                              ELSE on_end_calls' = <<game_result'[player_id]>>]_vars
  /\ [][(pc = "step" /\ pc' # "done" /\ hook_outcome \in {"ok", "timeout"})
        => /\ pc' = "observation"
           /\ "step" \in issued'
           /\ game_loop' = game_loop + game_step
           /\ iteration' = iteration + 1
           /\ on_end_calls' = on_end_calls
           /\ result' = Pending]_vars

C6_Witness ==
  /\ pc = "observation"
  /\ hook_outcome = "timeout"
  /\ iteration = 2
  /\ game_loop = 2 * game_step
  /\ on_end_calls = <<>>

\* C7: an exception of issue_events or on_step other than the step timeout makes
\* _play_game_ai call on_end(Defeat), exactly once, and return num_wins at once, also
\* in reset mode with run < num_runs: afterwards there is no observation, on_step,
\* client.step, restart_game or on_reset, and nothing is raised to the caller.
C7_FaultEndsRun ==
  /\ [][(pc \in {"issue_events", "on_step"} /\ hook_outcome' \in {"error", "closed"})
        => /\ on_end_calls' = <<"Defeat">>
           /\ last_hook' = "on_end"
           /\ result' = RetWins(num_wins)
           /\ pc' \in AfterPlayPcs
           /\ exc' = "none"
           /\ UNCHANGED <<on_reset_calls, iteration, run, num_wins, game_loop, issued>>]_vars
  /\ [][(hook_outcome \in {"error", "closed"})
        => /\ pc' \in AfterPlayPcs \cup {"done"}
           /\ exc' = "none"
           /\ issued' \ issued \subseteq AfterPlayPcs
           /\ UNCHANGED <<on_end_calls, on_reset_calls, last_hook, iteration, run,
                          num_wins, game_loop, hook_outcome>>]_vars

C7_Witness ==
  /\ hook_outcome = "error"
  /\ reset
  /\ run = 1
  /\ num_runs = 3
  /\ iteration = 2
  /\ pc = "done"
  /\ result = RetWins(num_wins)
  /\ on_end_calls = <<"Defeat">>
  /\ Len(on_reset_calls) = 2

\* C8: once the game is set up, a connection closed at any point of the match (join,
\* observation, inside issue_events / on_step, step, save_replay, leave, quit) makes
\* _host_game / _join_game return None, and the connection error is not raised.
C8_ClosedGivesNone ==
  ("join_game" \in issued /\ conn_closed /\ pc \in {"done", "raised"})
    => (pc = "done" /\ result = RetNone)

\* C9: when create_game answers with an error, _host_game raises to its caller; it has
\* issued create_game once, and no join_game, observation, step, save_replay, leave or
\* quit is issued for the match.
C9_CreateErrorRaises ==
  /\ [](create_game_calls <= 1)
  /\ [](exc = "RuntimeError"
          => /\ pc = "raised"
             /\ role = "host"
             /\ result = Pending
             /\ player_id = 0
             /\ create_game_calls = 1
             /\ issued = {"ping", "create_game"})
  /\ [][(pc = "create_game" /\ pc' # "join_game")
          => (pc' = "raised" /\ exc' = "RuntimeError")]_vars
  \* nothing is done once the error is raised
  /\ [][exc # "RuntimeError"]_vars

C9_Witness == exc = "RuntimeError" /\ pc = "raised" /\ create_game_calls = 1

\* C10: every iteration of _play_game_human fetches one observation; with an engine
\* result it returns the participant's result (before any game-time check); otherwise,
\* with the game-time budget exceeded, it returns Tie; otherwise it issues one
\* client.step() in non-realtime mode and none in realtime mode, and goes on.
C10_HumanLoop ==
  /\ [][(pc = "h_observation" /\ pc' # "done")
        => /\ "observation" \in issued'
           /\ IF game_result' # <<>>
                THEN /\ result' = RetResult(game_result'[player_id])
                     /\ pc' \in AfterPlayPcs
                ELSE IF game_time_limit # NoLimit
                          /\ game_loop' * 725 > game_time_limit * 16000
                       THEN result' = RetResult("Tie") /\ pc' \in AfterPlayPcs
                       ELSE /\ result' = Pending
                            /\ pc' = IF realtime THEN "h_observation" ELSE "h_step"]_vars
  /\ [][(pc = "h_step" /\ pc' # "done")
        => /\ ~realtime
           /\ game_loop' = game_loop + game_step
           /\ pc' = "h_observation"]_vars

\* the steps of the AI loop, lines 43-106
LoopPcs == {"observation", "restart_game", "issue_events", "on_step", "step"}

\* C13: iteration is 0 when an episode starts (the first one, and after each reset);
\* it changes only by the reset to 0 at a restart and by 1 at the end of an iteration
\* that goes on; the k-th on_step call of an episode receives iteration = k - 1; run
\* and num_wins never decrease.
C13_IterationCounts ==
  /\ []((kind = "Bot" /\ pc = "observation" /\ last_hook = "on_reset") => iteration = 0)
  /\ [](\A k \in DOMAIN on_step_calls : on_step_calls[k] = k - 1)
  /\ [][iteration' # iteration
          => \/ (pc = "restart_game" /\ iteration' = 0)
             \/ (pc \in {"on_step", "step"} /\ pc' = "observation"
                   /\ iteration' = iteration + 1)]_vars
  /\ [][run' >= run /\ num_wins' >= num_wins]_vars

\* the third on_step call of a second episode
C13_Witness ==
  /\ Len(on_reset_calls) = 2
  /\ on_step_calls = <<0, 1, 2>>
  /\ iteration = 2
  /\ run = 1

\* C14: a terminal iteration (line 51) counts the episode; with reset enabled and run
\* below num_runs the loop goes to server.restart_game() without on_end and without
\* returning, and the restart calls on_reset with the finished episode's result, clears
\* _game_result, sets iteration to 0 and goes to the next observation; any other
\* terminal iteration calls on_end with the result and returns num_wins.
C14_ResetOrReturn ==
  /\ [][(pc = "observation" /\ run' # run)
          => /\ run' = run + 1
             /\ Terminal(game_result', units', known_enemy_units')
             /\ IF reset /\ run' < num_runs
                  THEN /\ pc' = "restart_game"
                       /\ on_end_calls' = on_end_calls
                       /\ result' = Pending
                  ELSE /\ pc' \in AfterPlayPcs
                       /\ on_end_calls' = Append(on_end_calls, res')
                       /\ result' = RetWins(num_wins')]_vars
  /\ [][(pc = "restart_game" /\ pc' # "done")
          => /\ restart_game_calls' = restart_game_calls + 1
             /\ on_reset_calls' = Append(on_reset_calls, res)
             /\ game_result' = <<>>
             /\ iteration' = 0
             /\ pc' = "observation"
             /\ on_end_calls' = on_end_calls
             /\ result' = Pending]_vars

\* a second episode that ended without a reset, after a first one that was reset
C14_Witness ==
  /\ reset
  /\ num_runs = 2
  /\ run = 2
  /\ restart_game_calls = 1
  /\ Len(on_reset_calls) = 2
  /\ on_end_calls = <<res>>
  /\ result = RetWins(num_wins)

\* C15: the realtime AI loop never issues client.step(); in the non-realtime loop the
\* first on_step of an episode follows one observation, every later on_step follows
\* exactly one step and then one observation, and no step is issued in an iteration
\* that ends the run or restarts the game.
C15_StepsAlternate ==
  /\ []((kind = "Bot" /\ realtime) => "step" \notin issued)
  /\ []((pc = "on_step" /\ ~realtime)
          => since_on_step = (IF on_step_calls = <<>>
                                THEN <<"observation">>
                                ELSE <<"step", "observation">>))
  /\ []((kind = "Bot" /\ pc \in {"restart_game"} \cup AfterPlayPcs)
          => since_on_step \in {<<>>, <<"observation">>, <<"step", "observation">>})
  /\ [][(pc = "step" /\ pc' # "done") => (~realtime /\ pc' = "observation")]_vars

\* two on_step calls with one step between them
C15_Witness ==
  /\ ~realtime
  /\ pc = "on_step"
  /\ on_step_calls = <<0>>
  /\ since_on_step = <<"step", "observation">>

\* C16: in the non-realtime loop, whenever the hook has returned or timed out and
\* client.in_game is false, on_end is called with the engine's result for player_id
\* and the loop returns num_wins without a client.step().
C16_ResignEnds ==
  [][(pc = "on_step" /\ ~realtime /\ hook_outcome' \in {"ok", "timeout"} /\ ~in_game')
       => /\ game_result' # <<>>
          /\ on_end_calls' = Append(on_end_calls, game_result'[player_id])
          /\ result' = RetWins(num_wins)
          /\ pc' \in AfterPlayPcs
          /\ issued' = issued]_vars

\* C17: _play_game_ai returns only by a step that calls on_end; on_end is called at
\* most once, and once it is called no other hook (on_step, issue_events, on_reset,
\* _prepare_step) is invoked.
C17_OnEndOnceAndLast ==
  /\ [](Len(on_end_calls) <= 1)
  /\ []((kind = "Bot" /\ result.kind = "num_wins")
          => (Len(on_end_calls) = 1 /\ last_hook = "on_end"))
  /\ [][(kind = "Bot" /\ pc \in LoopPcs /\ pc' \in AfterPlayPcs)
          => (on_end_calls = <<>> /\ Len(on_end_calls') = 1 /\ last_hook' = "on_end"
                /\ result' = RetWins(num_wins'))]_vars
  /\ [][on_end_calls # <<>>
          => /\ on_end_calls' = on_end_calls
             /\ last_hook' = "on_end"
             /\ on_reset_calls' = on_reset_calls
             /\ on_step_calls' = on_step_calls
             /\ pc' \notin LoopPcs]_vars

\* a run of two episodes that ended by the game-time budget, all requests answered
C17_Witness ==
  /\ pc = "done"
  /\ result = RetWins(num_wins)
  /\ on_end_calls = <<"Tie">>
  /\ Len(on_reset_calls) = 2
  /\ last_hook = "on_end"

\* C18: 0 <= num_wins <= run always; restart_game is never issued with reset False;
\* with reset True it is issued at most num_runs - 1 times, and run never exceeds
\* num_runs.
C18_RunBounds ==
  /\ 0 <= num_wins
  /\ num_wins <= run
  /\ run <= num_runs
  /\ (~reset => (restart_game_calls = 0 /\ "restart_game" \notin issued))
  /\ (reset => restart_game_calls <= num_runs - 1)

\* every allowed episode was played and won
C18_Witness ==
  /\ reset
  /\ num_runs = MaxRuns
  /\ run = num_runs
  /\ num_wins = run
  /\ restart_game_calls = num_runs - 1

\* C19: a non-realtime AI loop with a game_time_limit given, whose requests and hooks
\* all complete and whose steps advance game_loop, eventually calls on_end and returns
\* num_wins.
C19_EventuallyReturns ==
  (pc = "get_game_data") ~> (Len(on_end_calls) = 1 /\ result.kind = "num_wins")

\* the coroutines run_game handed to the event loop
Started == {t \in Tasks : task_pc[t] # "idle"}

\* C11: run_game hands _host_game and _join_game together to the event loop exactly
\* when more than one participant is a Human or a Bot (otherwise _host_game alone);
\* both get the one Portconfig built by run_game, each starts its own SC2Process, the
\* host plays players[0] and the join plays players[1]; and run_game returns only when
\* both have returned, with the list of the host's result and the join's result.
C11_HostAndJoin ==
  /\ (rg_pc # "start")
       => (Started = IF NumControlled(players) > 1 THEN Tasks ELSE {"host"})
  /\ (Started = Tasks)
       => /\ portconfig = "Portconfig"
          /\ \A t \in Tasks : task_portconfig[t] = portconfig
          /\ task_player["host"] = 0
          /\ task_player["join"] = 1
          /\ \A t \in Tasks : task_server[t] <= servers
          /\ (task_server["host"] # 0 /\ task_server["join"] # 0)
               => task_server["host"] # task_server["join"]
  /\ (rg_pc = "returned" /\ Started = Tasks)
       => /\ \A t \in Tasks : task_pc[t] = "done"
          /\ rg_result = Gathered(task_result["host"], task_result["join"])

\* a Human host and a Bot join, the join's connection having been closed
C11_Witness ==
  /\ rg_pc = "returned"
  /\ players = <<"Human", "Bot">>
  /\ task_steps["host"] > 0
  /\ task_steps["join"] > 0
  /\ rg_result = Gathered(RetResult("Victory"), RetNone)

\* the players the consumer has asked for: the last list it sent, else the first ones
Asked(log) ==
  IF \E i \in DOMAIN log : log[i] # "None"
    THEN log[CHOOSE i \in DOMAIN log :
               log[i] # "None" /\ \A j \in DOMAIN log : (j > i => log[j] = "None")]
    ELSE FirstPlayers

\* C12: every advance of the iterator runs one episode and hands back its one result,
\* and the generator never ends at a yield; the game of an episode is created with, and
\* played by, the players list last sent by the consumer before it (the first list if
\* none was sent, None keeping the current one).
C12_IteratorEpisodes ==
  /\ [](it_pc = "suspended"
          => /\ Len(yielded) = Len(sent)
             /\ aiter_run = Len(yielded)
             /\ yielded[Len(yielded)] = aiter_result)
  /\ [](Len(yielded) <= aiter_run /\ aiter_run <= Len(sent))
  /\ [](it_pc \in {"play", "save_replay", "leave", "suspended"}
          => created_with = Asked(sent))
  /\ [](it_pc \in {"save_replay", "leave", "suspended"} => played_with = Asked(sent))
  /\ [][it_pc = "suspended" => (it_pc' = "ping" /\ Len(sent') = Len(sent) + 1)]_vars
  /\ [][yielded' # yielded
          => (it_pc = "leave" /\ yielded' = Append(yielded, aiter_result))]_vars

\* a list sent after the first episode, nothing after the second, three results
C12_Witness ==
  /\ it_pc = "suspended"
  /\ sent = <<"None", "P1", "None">>
  /\ Len(yielded) = 3
  /\ created_with = "P1"
  /\ played_with = "P1"

====
